---- MODULE Spec2Model ----
(***************************************************************************)
(* A model of src/wiki.js: the Wiki query client (api), its cursor-based   *)
(* pagination and recursive aggregation, page(title) and the WikiPage      *)
(* extraction operations.                                                  *)
(*                                                                         *)
(* JavaScript values are tagged records, so that property access on        *)
(* undefined (a TypeError), missing properties (undefined) and truthiness  *)
(* are computed the way the interpreter computes them.  Promise callbacks  *)
(* are the atomic steps: the code between two callbacks runs without       *)
(* interruption, and callbacks of different chains interleave freely.      *)
(***************************************************************************)
EXTENDS Integers, Sequences, FiniteSets, TLC

(***************************************************************************)
(* Bounds of the model.                                                    *)
(***************************************************************************)
\* The stub transport serves result sets of 1..MaxPages pages.
MaxPages == 3
\* Cap on the queries sent with one mapping object (a pathological server
\* never ends a chain): one more than the pages of the largest result set.
MaxQueries == MaxPages + 1

(***************************************************************************)
(* JavaScript values.                                                      *)
(***************************************************************************)
Undef == [t |-> "undef"]
Str(s) == [t |-> "str", s |-> s]
Num(n) == [t |-> "num", n |-> n]
Arr(es) == [t |-> "arr", e |-> es]
\* An object is the sequence of its <<key, value>> properties, in insertion
\* order (the order Object.keys reports).
Obj(ps) == [t |-> "obj", p |-> ps]
\* The outcome of an expression that threw.
Thrown(err) == [t |-> "throw", err |-> err]

IsThrown(v) == v.t = "throw"

\* if (v) ...: undefined, "" and 0 are falsy; objects and arrays are truthy.
Truthy(v) ==
  CASE v.t = "undef" -> FALSE
    [] v.t = "str" -> v.s # ""
    [] v.t = "num" -> v.n # 0
    [] OTHER -> TRUE

Digits == <<"0", "1", "2", "3", "4", "5", "6", "7", "8", "9">>

\* String(n) for a natural number n.
RECURSIVE NumStr(_)
NumStr(n) ==
  IF n < 10 THEN Digits[n + 1] ELSE NumStr(n \div 10) \o Digits[(n % 10) + 1]

\* A property key is a string: o[1234] reads the property "1234", and
\* o[undefined] the property "undefined".
ToKey(k) ==
  CASE k.t = "str" -> k.s
    [] k.t = "num" -> NumStr(k.n)
    [] OTHER -> "undefined"

\* Object.keys(o), as the sequence of key strings.
Keys(o) == [i \in 1..Len(o.p) |-> o.p[i][1]]

HasKey(o, k) == o.t = "obj" /\ \E i \in 1..Len(o.p) : o.p[i][1] = k

\* v[k] (v.k): a TypeError on undefined, undefined for a missing property.
Get(v, k) ==
  CASE v.t = "throw" -> v
    [] v.t = "undef" -> Thrown("TypeError")
    [] v.t = "obj" ->
         IF \E i \in 1..Len(v.p) : v.p[i][1] = k
         THEN v.p[CHOOSE i \in 1..Len(v.p) : v.p[i][1] = k][2]
         ELSE Undef
    [] OTHER -> Undef

\* a[i] for a 0-based index i.
Index(v, i) ==
  CASE v.t = "throw" -> v
    [] v.t = "undef" -> Thrown("TypeError")
    [] v.t = "arr" -> IF i < Len(v.e) THEN v.e[i + 1] ELSE Undef
    [] OTHER -> Undef

\* o[k] = x
SetProp(o, k, x) ==
  IF \E i \in 1..Len(o.p) : o.p[i][1] = k
  THEN Obj([i \in 1..Len(o.p) |-> IF o.p[i][1] = k THEN <<k, x>> ELSE o.p[i]])
  ELSE Obj(Append(o.p, <<k, x>>))

RECURSIVE ExtendFrom(_, _, _)
ExtendFrom(dst, src, i) ==
  IF i > Len(src.p) THEN dst
  ELSE ExtendFrom(SetProp(dst, src.p[i][1], src.p[i][2]), src, i + 1)

\* _.extend(dst, src): every property of src is copied onto dst, so src wins.
Extend(dst, src) == ExtendFrom(dst, src, 1)

\* _.pluck(list, key): [] for a missing list, else each element's property.
Pluck(list, key) ==
  CASE list.t = "throw" -> list
    [] list.t = "arr" -> Arr([i \in 1..Len(list.e) |-> Get(list.e[i], key)])
    [] OTHER -> Arr(<<>>)

\* _.findKey(obj, pred) with pred = (page) => page.title === title:
\* the first key whose value passes, undefined when none does.
FindKeyByTitle(obj, title) ==
  CASE obj.t = "throw" -> obj
    [] obj.t = "obj" ->
         LET hits == {i \in 1..Len(obj.p) : Get(obj.p[i][2], "title") = Str(title)}
         IN IF hits = {} THEN Undef
            ELSE Str(obj.p[CHOOSE i \in hits : \A j \in hits : i <= j][1])
    [] OTHER -> Undef


(***************************************************************************)
(* Wiki.api: the query parameters and the stub transport.                  *)
(***************************************************************************)
\* The fixed options api merges into every query.
ApiConsts == Obj(<< <<"format", Str("json")>>, <<"action", Str("query")>> >>)

\* qs: _.extend(params, {format: 'json', action: 'query'}): merged into the
\* caller's mapping in place; the constants win.
apiParams(params) == Extend(params, ApiConsts)

RECURSIVE DefinedFrom(_, _)
DefinedFrom(ps, i) ==
  IF i > Len(ps) THEN <<>>
  ELSE IF ps[i][2].t = "undef" THEN DefinedFrom(ps, i + 1)
       ELSE <<ps[i]>> \o DefinedFrom(ps, i + 1)

\* The query string sent: a property whose value is undefined is not sent.
WireOf(params) == Obj(DefinedFrom(params.p, 1))

\* search(query, limit): the mapping handed to pagination.
searchParams(query, limit) ==
  Obj(<< <<"list", Str("search")>>, <<"srsearch", Str(query)>>, <<"srlimit", Num(limit)>> >>)

\* parseResults of search: (res) => _.pluck(res.query.search, 'title')
searchResults(res) == Pluck(Get(Get(res, "query"), "search"), "title")

(***************************************************************************)
(* The stub transport: a deterministic function of the query it receives.  *)
(* It serves a result set of stub.pages pages; page k is asked for with    *)
(* sroffset = k (no sroffset: page 1).                                     *)
(***************************************************************************)
CursorKey == "sroffset"
Letters == <<"A", "B", "C", "D", "E", "F", "G", "H", "I", "J", "K", "L">>

\* Page k carries 2, 1, 0, 2, 1, 0, ... results.
PageCount(k) == CASE k % 3 = 1 -> 2 [] k % 3 = 2 -> 1 [] OTHER -> 0

RECURSIVE Offset(_)
Offset(k) == IF k <= 1 THEN 0 ELSE Offset(k - 1) + PageCount(k - 1)

SearchItem(k, i) ==
  Obj(<< <<"ns", Num(0)>>, <<"title", Str(Letters[Offset(k) + i])>> >>)

PageItems(k) == [i \in 1..PageCount(k) |-> SearchItem(k, i)]

\* The page a query asks for.
PageOf(wire) ==
  LET c == Get(wire, CursorKey) IN IF c.t = "num" THEN c.n ELSE 1

\* The continue object of page k: absent on the last page, and with the
\* cursor before or after the key continue; in the "bare" style every page
\* carries one that holds the key continue alone.
ContinueOf(stub, k) ==
  CASE stub.cont = "bare" -> Obj(<< <<"continue", Str("-||")>> >>)
    [] stub.cont = "cursor" /\ k < stub.pages /\ k % 2 = 1 ->
         Obj(<< <<CursorKey, Num(k + 1)>>, <<"continue", Str("-||")>> >>)
    [] stub.cont = "cursor" /\ k < stub.pages /\ k % 2 = 0 ->
         Obj(<< <<"continue", Str("-||")>>, <<CursorKey, Num(k + 1)>> >>)
    [] OTHER -> Undef

BodyOf(stub, k) ==
  LET c == ContinueOf(stub, k)
      q == <<"query", Obj(<< <<"search", Arr(IF k <= stub.pages THEN PageItems(k) ELSE <<>>)>> >>)>>
  IN IF c = Undef THEN Obj(<<q>>) ELSE Obj(<< <<"continue", c>>, q >>)

\* What the transport answers: the call fails, or yields a body that is
\* not JSON, or a JSON body without `query`, or the page asked for.
Transport(stub, wire) ==
  LET k == PageOf(wire) IN
  IF stub.failAt = k
  THEN CASE stub.failKind = "transport" -> [failed |-> TRUE, valid |-> FALSE, json |-> Undef]
         [] stub.failKind = "json" -> [failed |-> FALSE, valid |-> FALSE, json |-> Undef]
         [] OTHER -> [failed |-> FALSE, valid |-> TRUE,
                      json |-> Obj(<< <<"error", Obj(<< <<"code", Str("badvalue")>> >>)>> >>)]
  ELSE [failed |-> FALSE, valid |-> TRUE, json |-> BodyOf(stub, k)]

\* JSON.parse(res)
JSONparse(raw) == IF raw.valid THEN raw.json ELSE Thrown("SyntaxError")

\* What the promise of api settles with: .then(res => resolve(JSON.parse(res)))
\* .catch(reject).  A Thrown value stands for a rejection with that error.
apiSettle(raw) == IF raw.failed THEN Thrown("TransportError") ELSE JSONparse(raw)

(***************************************************************************)
(* Wiki.pagination: the handler of the response.                           *)
(***************************************************************************)
RECURSIVE FilterNotContinue(_, _)
FilterNotContinue(ks, i) ==
  IF i > Len(ks) THEN <<>>
  ELSE IF ks[i] # "continue" THEN <<ks[i]>> \o FilterNotContinue(ks, i + 1)
       ELSE FilterNotContinue(ks, i + 1)

\* A variant without the filter: the first key, whichever it is.
continueTypeFirstKey(cont) ==
  IF Len(Keys(cont)) = 0 THEN Undef ELSE Str(Keys(cont)[1])

\* Object.keys(res['continue']).filter(key => key !== 'continue')[0]
continueType(cont) ==
  LET ks == FilterNotContinue(Keys(cont), 1)
  IN IF Len(ks) = 0 THEN Undef ELSE Str(ks[1])

\* res['continue'][continueType]
continueKey(cont) == Get(cont, ToKey(continueType(cont)))

\* A variant that takes a continue object without a cursor for the end.
hasNextNeedsCursor(res) ==
  /\ Truthy(Get(res, "continue"))
  /\ FilterNotContinue(Keys(Get(res, "continue")), 1) # <<>>

\* if (res['continue']): whether the resolution gets a next continuation.
hasNext(res) == Truthy(Get(res, "continue"))

\* A variant that leaves the caller's mapping alone.
writeCursorNowhere(params, cont) == params

\* params[continueType] = continueKey
writeCursor(params, cont) == SetProp(params, ToKey(continueType(cont)), continueKey(cont))

\* The .then handler of pagination (and .catch(reject)): the resolution
\* {results, next?} and the mapping as the handler leaves it.
paginationThen(params, res) ==
  LET results == searchResults(res) IN
  IF IsThrown(res)
  THEN [kind |-> "rejected", err |-> res.err, results |-> <<>>, next |-> FALSE, params |-> params]
  ELSE IF IsThrown(results)
  THEN [kind |-> "rejected", err |-> results.err, results |-> <<>>, next |-> FALSE, params |-> params]
  ELSE IF hasNext(res)
  THEN [kind |-> "resolved", err |-> "", results |-> results.e, next |-> TRUE,
        params |-> writeCursor(params, Get(res, "continue"))]
  ELSE [kind |-> "resolved", err |-> "", results |-> results.e, next |-> FALSE, params |-> params]

(***************************************************************************)
(* Wiki.aggregatePagination: the handlers of one pagination promise.       *)
(***************************************************************************)
\* A variant that forgets the results of the earlier pages.
aggregateThenForgets(previousResults, res) ==
  IF res.next
  THEN [results |-> res.results, nextCalls |-> 1, done |-> FALSE]
  ELSE [results |-> res.results, nextCalls |-> 0, done |-> TRUE]

\* A variant that calls res.next() once to test it and once to use it.
aggregateThenCallsTwice(previousResults, res) ==
  LET results == previousResults \o res.results IN
  IF res.next
  THEN [results |-> results, nextCalls |-> 2, done |-> FALSE]
  ELSE [results |-> results, nextCalls |-> 0, done |-> TRUE]

\* .then(res => ...): the results so far, and how many times res.next() is
\* invoked (each invocation is one call of pagination, hence one query).
aggregateThen(previousResults, res) ==
  LET results == previousResults \o res.results IN
  IF res.next
  THEN [results |-> results, nextCalls |-> 1, done |-> FALSE]
  ELSE [results |-> results, nextCalls |-> 0, done |-> TRUE]

\* A variant whose closure keeps the mapping as it was at its creation.
closureParamsSnapshot(live, snap) == snap

\* resolution.next = () => this.pagination(params, parseResults): the
\* closure holds the mapping itself, so a call of next() reads the mapping
\* as it is when next() is called (live), not as it was when the closure
\* was made (snap).
closureParams(live, snap) == live

\* A variant that settles for the pages it has when a later one fails.
aggregateCatchKeepsPartial(a, err) ==
  [a EXCEPT !.state = "resolved", !.value = a.previousResults]

\* .catch(reject): the aggregate promise rejects with the error.
aggregateCatch(a, err) == [a EXCEPT !.state = "rejected", !.err = err]

(***************************************************************************)
(* Wiki.page, WikiPage and the single-query operations.                    *)
(***************************************************************************)
\* The Wiki instance a WikiPage refers to.
WikiRef == [t |-> "ref", to |-> "Wiki"]

\* new WikiPage(props, wiki): this.wiki = wiki; _.extend(this, props)
WikiPage(props, wiki) == Extend(Obj(<< <<"wiki", wiki>> >>), props)

\* How a promise settled.
Resolved(v) == [state |-> "resolved", value |-> v]
Rejected(err) == [state |-> "rejected", value |-> Str(err)]

\* .then((res) => resolve(<expression>)).catch(reject): an expression that
\* throws, like a failed api call, rejects the promise.
Settle(v) == IF IsThrown(v) THEN Rejected(v.err) ELSE Resolved(v)

\* The query parameters of each operation.
opParams(op, title, this) ==
  CASE op = "page" ->
         Obj(<< <<"prop", Str("info|pageprops")>>, <<"inprop", Str("url")>>,
                <<"ppprop", Str("disambiguation")>>, <<"titles", Str(title)>> >>)
    [] op = "html" ->
         Obj(<< <<"prop", Str("revisions")>>, <<"rvprop", Str("content")>>,
                <<"rvlimit", Num(1)>>, <<"rvparse", Str("")>>,
                <<"titles", Get(this, "title")>> >>)
    [] op = "content" ->
         Obj(<< <<"prop", Str("extracts")>>, <<"explaintext", Str("")>>,
                <<"titles", Get(this, "title")>> >>)
    [] op = "summary" ->
         Obj(<< <<"prop", Str("extracts")>>, <<"explaintext", Str("")>>,
                <<"exintro", Str("")>>, <<"titles", Get(this, "title")>> >>)
    [] op = "references" ->
         Obj(<< <<"prop", Str("extlinks")>>, <<"ellimit", Str("max")>>,
                <<"titles", Get(this, "title")>> >>)
    [] op = "coordinates" ->
         Obj(<< <<"prop", Str("coordinates")>>, <<"titles", Get(this, "title")>> >>)
    [] op = "info" ->
         Obj(<< <<"prop", Str("revisions")>>, <<"rvprop", Str("content")>>,
                <<"rvsection", Num(0)>>, <<"titles", Get(this, "title")>> >>)
    [] op = "random" ->
         Obj(<< <<"list", Str("random")>>, <<"rnnamespace", Num(0)>>,
                <<"rnlimit", Num(1)>> >>)
    [] op = "geoSearch" ->
         Obj(<< <<"list", Str("geosearch")>>, <<"gsradius", Num(1000)>>,
                <<"gscoord", Str("48|2")>> >>)
    [] OTHER -> searchParams(title, 50)

\* res.query.pages[this.pageid]
thisPage(res, this) ==
  Get(Get(Get(res, "query"), "pages"), ToKey(Get(this, "pageid")))

\* The wiki-markup-parser collaborator: the infobox of a wikitext.
markupParser(text) ==
  IF IsThrown(text) THEN text ELSE Obj(<< <<"infobox", text>> >>)

\* if (!id): page's test for `no article found`.
notFound(id) == ~Truthy(id)

\* The .then handler of page(title).
pageThen(res, title, wiki) ==
  LET pages == Get(Get(res, "query"), "pages")
      id == FindKeyByTitle(pages, title)
  IN IF IsThrown(id) THEN Rejected(id.err)
     ELSE IF notFound(id) THEN Rejected("No article found")
     ELSE Resolved(WikiPage(Get(pages, ToKey(id)), wiki))

\* What each operation's promise settles with on the response res (a
\* Thrown res stands for the rejection of api).
opSettle(op, title, this, params, res) ==
  CASE op = "page" -> pageThen(res, title, WikiRef)
    [] op = "html" ->
         Settle(Get(Index(Get(thisPage(res, this), "revisions"), 0), "*"))
    [] op \in {"content", "summary"} ->
         Settle(Get(thisPage(res, this), "extract"))
    [] op = "references" ->
         Settle(Pluck(Get(thisPage(res, this), "extlinks"), "*"))
    [] op = "coordinates" ->
         Settle(Index(Get(thisPage(res, this), "coordinates"), 0))
    [] op = "info" ->
         Settle(markupParser(Get(Index(Get(thisPage(res, this), "revisions"), 0), "*")))
    [] op = "random" ->
         Settle(Pluck(Get(Get(res, "query"), "random"), "title"))
    [] op = "geoSearch" ->
         Settle(Pluck(Get(Get(res, "query"), "geosearch"), "title"))
    [] OTHER ->
         LET out == paginationThen(params, res) IN
         IF out.kind = "rejected" THEN Rejected(out.err)
         ELSE Resolved(Obj(<< <<"results", Arr(out.results)>> >>))

(***************************************************************************)
(* The responses the stub transport gives the single-query operations.     *)
(***************************************************************************)
PageOps == {"html", "content", "summary", "references", "coordinates", "info"}
ListOps == {"search", "random", "geoSearch"}
Ops == {"page"} \cup PageOps \cup ListOps

Titles == {"Batman", "Robin"}

BaseEntry(id, title) ==
  << <<"pageid", Num(id)>>, <<"ns", Num(0)>>, <<"title", Str(title)>> >>

\* The property of the page entry (or of query) that each operation reads.
FieldOf(op) ==
  CASE op \in {"html", "info"} -> "revisions"
    [] op \in {"content", "summary"} -> "extract"
    [] op = "references" -> "extlinks"
    [] op = "coordinates" -> "coordinates"
    [] op = "random" -> "random"
    [] op = "geoSearch" -> "geosearch"
    [] OTHER -> "search"

FullField(op) ==
  CASE op \in {"html", "info"} -> Arr(<< Obj(<< <<"*", Str("{{Infobox}}")>> >>) >>)
    [] op \in {"content", "summary"} -> Str("Batman is a superhero")
    [] op = "references" -> Arr(<< Obj(<< <<"*", Str("http://dc.com")>> >>) >>)
    [] op = "coordinates" -> Arr(<< Obj(<< <<"lat", Num(48)>>, <<"lon", Num(2)>> >>) >>)
    [] OTHER -> Arr(<< Obj(<< <<"title", Str("A")>> >>), Obj(<< <<"title", Str("B")>> >>) >>)

\* The shapes of response each operation is tried on.
Shapes(op) ==
  CASE op = "page" ->
         {"byId", "missing", "otherTitle", "emptyKey", "zeroKey", "second",
          "noPages", "noQuery", "transportFail", "badJson"}
    [] op \in {"content", "summary"} ->
         {"full", "noField", "noEntry", "noPages", "noQuery", "transportFail", "badJson"}
    [] op \in PageOps ->
         {"full", "noField", "emptyList", "noEntry", "noPages", "noQuery",
          "transportFail", "badJson"}
    [] OTHER -> {"full", "noField", "emptyList", "noQuery", "transportFail", "badJson"}

QueryBody(q) == Obj(<< <<"batchcomplete", Str("")>>, <<"query", Obj(q)>> >>)

\* query.pages of the responses to page('Batman').
PagesFor(shape) ==
  CASE shape = "byId" -> << <<"1234", Obj(BaseEntry(1234, "Batman"))>> >>
    [] shape = "missing" ->
         << <<"-1", Obj(<< <<"ns", Num(0)>>, <<"title", Str("Batman")>>,
                          <<"missing", Str("")>> >>)>> >>
    [] shape = "otherTitle" -> << <<"99", Obj(BaseEntry(99, "Bat man"))>> >>
    [] shape = "emptyKey" -> << <<"", Obj(BaseEntry(1234, "Batman"))>> >>
    [] shape = "zeroKey" -> << <<"0", Obj(BaseEntry(0, "Batman"))>> >>
    [] OTHER -> << <<"99", Obj(BaseEntry(99, "Bat man"))>>,
                   <<"1234", Obj(BaseEntry(1234, "Batman"))>> >>

JsonFor(op, shape) ==
  CASE shape = "noQuery" -> Obj(<< <<"batchcomplete", Str("")>> >>)
    [] shape = "noPages" -> QueryBody(<<>>)
    [] op = "page" -> QueryBody(<< <<"pages", Obj(PagesFor(shape))>> >>)
    [] op \in PageOps /\ shape = "noEntry" ->
         QueryBody(<< <<"pages", Obj(<< <<"99", Obj(BaseEntry(99, "Robin"))>> >>)>> >>)
    [] op \in PageOps /\ shape = "noField" ->
         QueryBody(<< <<"pages", Obj(<< <<"1234", Obj(BaseEntry(1234, "Batman"))>> >>)>> >>)
    [] op \in PageOps /\ shape = "emptyList" ->
         QueryBody(<< <<"pages", Obj(<< <<"1234",
            Obj(Append(BaseEntry(1234, "Batman"), <<FieldOf(op), Arr(<<>>)>>))>> >>)>> >>)
    [] op \in PageOps ->
         QueryBody(<< <<"pages", Obj(<< <<"1234",
            Obj(Append(BaseEntry(1234, "Batman"), <<FieldOf(op), FullField(op)>>))>> >>)>> >>)
    [] shape = "noField" -> QueryBody(<<>>)
    [] shape = "emptyList" -> QueryBody(<< <<FieldOf(op), Arr(<<>>)>> >>)
    [] OTHER -> QueryBody(<< <<FieldOf(op), FullField(op)>> >>)

RawFor(op, shape) ==
  CASE shape = "transportFail" -> [failed |-> TRUE, valid |-> FALSE, json |-> Undef]
    [] shape = "badJson" -> [failed |-> FALSE, valid |-> FALSE, json |-> Undef]
    [] OTHER -> [failed |-> FALSE, valid |-> TRUE, json |-> JsonFor(op, shape)]

(***************************************************************************)
(* State.                                                                  *)
(***************************************************************************)
Chains == 1..2
Objs == 1..2

VARIABLES
  stub,     \* the stub transport's result set and failure
  share,    \* whether both chains were handed one mapping object
  heap,     \* the parameter mappings, by object
  mode,     \* per chain: "idle", "aggregated" (aggregatePagination drives
            \* it) or "manual" (the caller invokes next())
  net,      \* the requests in flight
  settled,  \* per chain: the settled pagination promises its consumer holds
  agg,      \* per chain: the promise of aggregatePagination
  log,      \* per chain: the queries issued, and what each was answered
  lastWrite, \* per object: the cursor a response wrote last, and whose
  handle,   \* the WikiPage the last page(title) resolved with, if any
  call,     \* the single-query operation whose request is in flight
  outcome   \* how the last single-query operation settled

chainVars == <<stub, share, heap, mode, net, settled, agg, log, lastWrite>>
opVars == <<handle, call, outcome>>
vars == <<stub, share, heap, mode, net, settled, agg, log, lastWrite,
          handle, call, outcome>>

\* The mapping object of chain c.
obj(c) == IF share THEN 1 ELSE c

\* The mappings the callers build: search('star wars', 2) and
\* search('batman') with the default limit.
callerParams(o) == IF o = 1 THEN searchParams("star wars", 2)
                            ELSE searchParams("batman", 50)

\* The number of queries sent with mapping object o so far.
RECURSIVE SentBy(_, _)
SentBy(o, cs) ==
  IF cs = {} THEN 0
  ELSE LET c == CHOOSE x \in cs : TRUE
       IN (IF obj(c) = o THEN Len(log[c]) ELSE 0) + SentBy(o, cs \ {c})

QueriesOn(o) == SentBy(o, Chains)

NoWrite == [by |-> 0, qid |-> 0, val |-> Undef]

Stubs ==
  { [pages |-> n, cont |-> s, failAt |-> f, failKind |-> k] :
      n \in 1..MaxPages, s \in {"cursor", "bare"},
      f \in 0..MaxPages, k \in {"none", "transport", "json", "shape"} }

NoCall == [op |-> "none", title |-> "", wire |-> Undef, sent |-> 0]
NoOutcome == [op |-> "none", title |-> "", shape |-> "", state |-> "none",
              value |-> Undef, res |-> Undef, sent |-> 0]

OpsIdle ==
  /\ handle = Undef
  /\ call = NoCall
  /\ outcome = NoOutcome

Init ==
  /\ OpsIdle
  /\ stub \in { s \in Stubs : /\ s.failAt <= s.pages
                              /\ (s.failAt = 0) = (s.failKind = "none")
                              /\ (s.cont = "bare" => s.pages = 1) }
  /\ share \in BOOLEAN
  /\ heap = [o \in Objs |-> callerParams(o)]
  /\ mode = [c \in Chains |-> "idle"]
  /\ net = {}
  /\ settled = [c \in Chains |-> {}]
  /\ agg = [c \in Chains |-> [state |-> "none", previousResults |-> <<>>,
                              value |-> <<>>, err |-> "", calls |-> 0]]
  /\ log = [c \in Chains |-> <<>>]
  /\ lastWrite = [o \in Objs |-> NoWrite]

(***************************************************************************)
(* Operations.                                                             *)
(***************************************************************************)
\* n calls of pagination(params, parseResults) by chain c, made by the
\* continuation of query `via` (0: by the caller): each runs api(params)
\* synchronously, which merges the fixed options into the mapping and sends
\* the mapping as it is at that moment.
Issue(c, via, n, given) ==
  LET o == obj(c) IN
  /\ QueriesOn(o) + n <= MaxQueries
  /\ \E params \in {IF n = 0 THEN heap[o] ELSE apiParams(given)} :
     \E wire \in {WireOf(params)} :
       /\ heap' = [heap EXCEPT ![o] = params]
       /\ log' = [log EXCEPT ![c] = @ \o
            [i \in 1..n |->
              [wire |-> wire, via |-> via, lw |-> lastWrite[o], answered |-> FALSE,
               cont |-> Undef, failed |-> "", results |-> <<>>]]]
       /\ net' = net \cup
            { [c |-> c, qid |-> Len(log[c]) + i, wire |-> wire] : i \in 1..n }

\* search(query, limit) (or links, categories, backlinks): the first call
\* of pagination; an aggregated chain hands its promise to
\* aggregatePagination.
Start(c, m) ==
  /\ mode[c] = "idle"
  /\ mode' = [mode EXCEPT ![c] = m]
  /\ Issue(c, 0, 1, heap[obj(c)])
  /\ agg' = IF m = "aggregated"
            THEN [agg EXCEPT ![c].state = "pending", ![c].calls = 1]
            ELSE agg
  /\ UNCHANGED <<stub, share, settled, lastWrite>>
  /\ UNCHANGED opVars

\* The transport settles request r: the promise of api settles, and the
\* handler of pagination runs on it.
Deliver(r) ==
  LET c == r.c
      o == obj(c)
  IN \E res \in {apiSettle(Transport(stub, r.wire))} :
     \E out \in {paginationThen(heap[o], res)} :
     /\ r \in net
     /\ net' = net \ {r}
     /\ heap' = [heap EXCEPT ![o] = out.params]
     /\ settled' = [settled EXCEPT ![c] = @ \cup
          {[qid |-> r.qid, kind |-> out.kind, err |-> out.err,
            results |-> out.results, next |-> out.next, snap |-> out.params]}]
     /\ log' = [log EXCEPT ![c][r.qid].answered = TRUE,
                           ![c][r.qid].failed = out.err,
                           ![c][r.qid].results = out.results,
                           ![c][r.qid].cont =
                              IF IsThrown(res) THEN Undef
                              ELSE Get(res, "continue")]
     /\ lastWrite' = IF out.next
                     THEN [lastWrite EXCEPT ![o] =
                            [by |-> c, qid |-> r.qid,
                             val |-> Get(Get(res, "continue"), CursorKey)]]
                     ELSE lastWrite
     /\ UNCHANGED <<stub, share, mode, agg>>
     /\ UNCHANGED opVars

\* aggregatePagination's .then handler on a fulfilled pagination promise.
AggThen(c, s) ==
  /\ mode[c] = "aggregated"
  /\ agg[c].state = "pending"
  /\ s \in settled[c]
  /\ s.kind = "resolved"
  /\ \E out \in {aggregateThen(agg[c].previousResults, s)} :
     /\ settled' = [settled EXCEPT ![c] = @ \ {s}]
     /\ Issue(c, s.qid, out.nextCalls, closureParams(heap[obj(c)], s.snap))
     /\ agg' = IF out.done
               THEN [agg EXCEPT ![c].state = "resolved", ![c].value = out.results,
                                ![c].previousResults = out.results]
               ELSE [agg EXCEPT ![c].previousResults = out.results,
                                ![c].calls = @ + 1]
     /\ UNCHANGED <<stub, share, mode, lastWrite>>
     /\ UNCHANGED opVars

\* aggregatePagination's .catch(reject) on a rejected pagination promise.
AggCatch(c, s) ==
  /\ mode[c] = "aggregated"
  /\ agg[c].state = "pending"
  /\ s \in settled[c]
  /\ s.kind = "rejected"
  /\ settled' = [settled EXCEPT ![c] = @ \ {s}]
  /\ agg' = [agg EXCEPT ![c] = aggregateCatch(@, s.err)]
  /\ UNCHANGED <<stub, share, heap, mode, net, log, lastWrite>>
  /\ UNCHANGED opVars

\* The caller of a non-aggregated chain invokes the next() of a result it
\* holds: resolution.next = () => this.pagination(params, parseResults).
ManualNext(c, s) ==
  /\ mode[c] = "manual"
  /\ s \in settled[c]
  /\ s.next
  /\ Issue(c, s.qid, 1, closureParams(heap[obj(c)], s.snap))
  /\ UNCHANGED <<stub, share, mode, settled, agg, lastWrite>>
  /\ UNCHANGED opVars

\* Chain 1 is driven either way, chain 2 by aggregatePagination.
Modes(c) == IF c = 1 THEN {"aggregated", "manual"} ELSE {"aggregated"}

Next ==
  \/ \E c \in Chains : \E m \in Modes(c) : Start(c, m)
  \/ \E r \in net : Deliver(r)
  \/ \E c \in Chains : \E s \in settled[c] : AggThen(c, s)
  \/ \E c \in Chains : \E s \in settled[c] : AggCatch(c, s)
  \/ \E c \in Chains : \E s \in settled[c] : ManualNext(c, s)

Spec == Init /\ [][Next]_vars

(***************************************************************************)
(* The single-query operations, one call at a time.                        *)
(***************************************************************************)
InitOps ==
  /\ OpsIdle
  /\ stub = [pages |-> 1, cont |-> "cursor", failAt |-> 0, failKind |-> "none"]
  /\ share = FALSE
  /\ heap = [o \in Objs |-> callerParams(o)]
  /\ mode = [c \in Chains |-> "idle"]
  /\ net = {}
  /\ settled = [c \in Chains |-> {}]
  /\ agg = [c \in Chains |-> [state |-> "none", previousResults |-> <<>>,
                              value |-> <<>>, err |-> "", calls |-> 0]]
  /\ log = [c \in Chains |-> <<>>]
  /\ lastWrite = [o \in Objs |-> NoWrite]

\* wiki.page(title), wiki.random(), wiki.geoSearch(lat, lon) or
\* wiki.search(title): one call of api, hence one query.
CallWiki(op, title) ==
  /\ call = NoCall
  /\ op \in {"page"} \cup ListOps
  /\ call' = [op |-> op, title |-> title, sent |-> 1,
              wire |-> WireOf(apiParams(opParams(op, title, Undef)))]
  /\ outcome' = NoOutcome
  /\ UNCHANGED handle
  /\ UNCHANGED chainVars

\* An operation of the WikiPage that page(title) resolved with.
CallPage(op) ==
  /\ call = NoCall
  /\ handle # Undef
  /\ op \in PageOps
  /\ call' = [op |-> op, title |-> "", sent |-> 1,
              wire |-> WireOf(apiParams(opParams(op, "", handle)))]
  /\ outcome' = NoOutcome
  /\ UNCHANGED handle
  /\ UNCHANGED chainVars

\* The transport answers the call in flight, and the operation's handlers
\* settle its promise.
Answer(shape) ==
  LET res == apiSettle(RawFor(call.op, shape))
      out == opSettle(call.op, call.title, handle,
                      apiParams(opParams(call.op, call.title, handle)), res)
  IN /\ call # NoCall
     /\ shape \in Shapes(call.op)
     /\ outcome' = [op |-> call.op, title |-> call.title, shape |-> shape,
                    state |-> out.state, value |-> out.value,
                    res |-> res, sent |-> call.sent]
     /\ handle' = IF call.op = "page" /\ out.state = "resolved"
                  THEN out.value ELSE handle
     /\ call' = NoCall
     /\ UNCHANGED chainVars

AllShapes == UNION {Shapes(op) : op \in Ops}

NextOps ==
  \/ \E op \in Ops : \E title \in Titles : CallWiki(op, title)
  \/ \E op \in Ops : CallPage(op)
  \/ \E shape \in AllShapes : Answer(shape)

SpecOps == InitOps /\ [][NextOps]_vars

(***************************************************************************)
(* Vocabulary of the properties.                                           *)
(***************************************************************************)
Aggregated(c) == mode[c] = "aggregated"
Manual(c) == mode[c] = "manual"

\* No other chain was started on the mapping of chain c.
Alone(c) == \A d \in Chains \ {c} : mode[d] = "idle" \/ obj(d) # obj(c)

InFlight(c) == {r \in net : r.c = c}

\* extract(page k) of the stub's result set.
Extract(k) == searchResults(BodyOf(stub, k)).e

RECURSIVE ExtractUpTo(_)
ExtractUpTo(n) == IF n = 0 THEN <<>> ELSE ExtractUpTo(n - 1) \o Extract(n)

RECURSIVE CountUpTo(_)
CountUpTo(n) == IF n = 0 THEN 0 ELSE CountUpTo(n - 1) + PageCount(n)

\* The keys of a continue object other than `continue`.
CursorKeys(cont) ==
  IF cont.t = "obj" THEN {Keys(cont)[i] : i \in 1..Len(cont.p)} \ {"continue"} ELSE {}

\* C1: an aggregated chain on a mapping of its own, against a stub that
\* serves N pages (all but the last with a continue object) and never
\* fails, issues at most N queries, is never rejected, and once nothing is
\* left to do it is resolved, after exactly N queries, with the pages'
\* extracted results concatenated in page order (as many as the pages hold
\* together); for N = 1 no result carries a next and one call of
\* aggregatePagination does it.
C1_AggregationComplete ==
  \A c \in Chains :
    (Aggregated(c) /\ Alone(c) /\ stub.cont = "cursor" /\ stub.failAt = 0) =>
      /\ Len(log[c]) <= stub.pages
      /\ agg[c].state # "rejected"
      /\ (InFlight(c) = {} /\ settled[c] = {}) => agg[c].state = "resolved"
      /\ agg[c].state = "resolved" =>
           /\ Len(log[c]) = stub.pages
           /\ agg[c].value = ExtractUpTo(stub.pages)
           /\ Len(agg[c].value) = CountUpTo(stub.pages)
           /\ \A k \in 1..stub.pages : PageOf(log[c][k].wire) = k
      /\ stub.pages = 1 =>
           /\ \A s \in settled[c] : ~s.next
           /\ agg[c].calls = 1

C1_Witness ==
  \E c \in Chains :
    /\ Aggregated(c) /\ Alone(c) /\ stub.cont = "cursor" /\ stub.failAt = 0
    /\ stub.pages = MaxPages
    /\ agg[c].state = "resolved"
    /\ Len(log[c]) = MaxPages
    /\ Len(agg[c].value) = CountUpTo(MaxPages)
    /\ agg[c].value[1] = Str("A") /\ agg[c].value[3] = Str("C")

\* C2: an aggregated chain has at most one request in flight, and its query
\* k+1 is issued, by the continuation of page k, only once the response of
\* query k has been received and its result taken by the aggregation.
C2_Sequential ==
  \A c \in Chains :
    Aggregated(c) =>
      /\ Cardinality(InFlight(c)) <= 1
      /\ \A k \in 2..Len(log[c]) :
           /\ log[c][k - 1].answered
           /\ log[c][k].via = k - 1
           /\ \A s \in settled[c] : s.qid >= k

C2_Witness ==
  \E c \in Chains :
    /\ Aggregated(c)
    /\ Len(log[c]) = 3
    /\ Cardinality(InFlight(c)) = 1
    /\ log[c][2].answered /\ ~log[c][3].answered

\* C3: once the transport has failed on a query of an aggregated chain,
\* that query is the chain's last (no retry, no further query), nothing of
\* the chain is in flight, and the promise of aggregatePagination is never
\* resolved: it is pending with the rejection waiting for it, or rejected
\* with that failure.
C3_FailureRejects ==
  \A c \in Chains :
    Aggregated(c) =>
      \A k \in 1..Len(log[c]) :
        log[c][k].failed = "TransportError" =>
          /\ k = Len(log[c])
          /\ InFlight(c) = {}
          /\ agg[c].state \in {"pending", "rejected"}
          /\ agg[c].state = "pending" =>
               \E s \in settled[c] :
                 s.qid = k /\ s.kind = "rejected" /\ s.err = "TransportError"
          /\ agg[c].state = "rejected" => agg[c].err = "TransportError"

C3_Witness ==
  \E c \in Chains :
    /\ Aggregated(c)
    /\ Len(log[c]) = 3
    /\ log[c][3].failed = "TransportError"
    /\ agg[c].state = "rejected" /\ agg[c].err = "TransportError"
    /\ Len(agg[c].previousResults) = 3

\* C8: in an aggregated chain on a mapping of its own, when the response of
\* query k carries a continue object whose one key other than `continue`
\* is K, with value V, query k+1 is sent with K = V; and every parameter
\* the caller supplied (none of them the cursor) is sent with the caller's
\* value on every query.
C8_CursorCarried ==
  \A c \in Chains :
    (Aggregated(c) /\ Alone(c)) =>
      /\ \A k \in 1..(Len(log[c]) - 1) :
           \A K \in CursorKeys(log[c][k].cont) :
             CursorKeys(log[c][k].cont) = {K} =>
               Get(log[c][k + 1].wire, K) = Get(log[c][k].cont, K)
      /\ \A k \in 1..Len(log[c]) :
           \A i \in 1..Len(callerParams(obj(c)).p) :
             LET key == callerParams(obj(c)).p[i][1] IN
             key # CursorKey =>
               Get(log[c][k].wire, key) = callerParams(obj(c)).p[i][2]

C8_Witness ==
  \E c \in Chains :
    /\ Aggregated(c) /\ Alone(c)
    /\ Len(log[c]) = 3
    /\ Get(log[c][1].cont, CursorKey) = Num(2)
    /\ Get(log[c][2].wire, CursorKey) = Num(2)
    /\ Keys(log[c][2].cont)[1] = "continue"
    /\ Get(log[c][3].wire, CursorKey) = Num(3)
    /\ Get(log[c][3].wire, "srsearch") = callerParams(obj(c)).p[2][2]

\* C9: against a stub whose every response carries a continue object with
\* no key but `continue`, the continuation key and cursor are undefined
\* (the mapping gets the property "undefined", set to undefined), every
\* result still has a next, every query of an aggregated chain equals its
\* first one, and the promise of aggregatePagination is never settled.
C9_BareContinueNeverEnds ==
  \A c \in Chains :
    (Aggregated(c) /\ stub.cont = "bare" /\ stub.failAt = 0) =>
      /\ agg[c].state = "pending"
      /\ \A s \in settled[c] : s.kind = "resolved" /\ s.next
      /\ \A k \in 1..Len(log[c]) :
           /\ log[c][k].wire = log[c][1].wire
           /\ ~HasKey(log[c][k].wire, "undefined")
           /\ log[c][k].answered =>
                /\ CursorKeys(log[c][k].cont) = {}
                /\ continueType(log[c][k].cont) = Undef
                /\ continueKey(log[c][k].cont) = Undef
                /\ HasKey(heap[obj(c)], "undefined")
                /\ Get(heap[obj(c)], "undefined") = Undef

C9_Witness ==
  \E c \in Chains :
    /\ Aggregated(c) /\ stub.cont = "bare" /\ stub.failAt = 0
    /\ Len(log[c]) = MaxPages + 1
    /\ log[c][MaxPages + 1].answered
    /\ agg[c].state = "pending"
    /\ Len(agg[c].previousResults) = 2 * MaxPages

\* C4: two calls of pagination handed the same mapping (the first query of
\* each chain, when the chains share one object) get equal results from the
\* deterministic stub.
C4_SameParamsSameResults ==
  \A c, d \in Chains :
    ( /\ obj(c) = obj(d)
      /\ log[c] # <<>> /\ log[d] # <<>>
      /\ log[c][1].answered /\ log[d][1].answered ) =>
        log[c][1].results = log[d][1].results

\* C5: a response's cursor is written into the mapping object itself, so
\* the mapping holds, under the cursor key, the value of the response that
\* was processed last, whichever chain it answered; and a query that is
\* sent while the last cursor written came from another chain's response
\* belongs to a chain sharing that chain's mapping and carries that cursor.
C5_CursorWrittenInPlace ==
  /\ \A o \in Objs :
       lastWrite[o].by # 0 => Get(heap[o], CursorKey) = lastWrite[o].val
  /\ \A c \in Chains : \A k \in 1..Len(log[c]) :
       LET q == log[c][k] IN
       q.lw.by \notin {0, c} =>
         /\ share
         /\ Get(q.wire, CursorKey) = q.lw.val

\* Two chains in flight on one mapping, each with a request out: the
\* continuation of chain c's query q.via has sent the cursor another chain's
\* response wrote, not the one its own response carried.
C5_Witness ==
  \E c \in Chains : \E k \in 1..Len(log[c]) :
    LET q == log[c][k] IN
    /\ share
    /\ q.via >= 1
    /\ q.lw.by \notin {0, c}
    /\ q.lw.val.t = "num"
    /\ Get(q.wire, CursorKey) = q.lw.val
    /\ Get(log[c][q.via].cont, CursorKey) # q.lw.val
    /\ k = Len(log[c]) /\ ~q.answered
    /\ InFlight(q.lw.by) # {}

\* C10: on a caller-driven chain with a mapping of its own, a query sent by
\* a continuation carries the cursor that the chain's most recently
\* processed response wrote, whichever result the continuation was
\* attached to.
C10_ContinuationsShareMapping ==
  \A c \in Chains :
    (Manual(c) /\ Alone(c)) =>
      \A k \in 1..Len(log[c]) :
        LET q == log[c][k] IN
        q.via >= 1 =>
          /\ q.lw.by = c
          /\ log[c][q.lw.qid].answered
          /\ Get(q.wire, CursorKey) = Get(log[c][q.lw.qid].cont, CursorKey)

\* The next() of page 1 is invoked twice: first it asks for page 2, and
\* after the response of page 2 has been processed it asks for page 3.
C10_Witness ==
  \E c \in Chains :
    /\ Manual(c) /\ Alone(c)
    /\ Len(log[c]) = 3
    /\ log[c][2].via = 1 /\ PageOf(log[c][2].wire) = 2
    /\ log[c][3].via = 1 /\ PageOf(log[c][3].wire) = 3
    /\ log[c][3].lw.qid = 2
    /\ Get(log[c][1].cont, CursorKey) = Num(2)

\* v[k] where a missing step of the path reads as undefined.
SafeGet(v, k) == IF HasKey(v, k) THEN Get(v, k) ELSE Undef

\* Whether the response lacks what the operation reads: the property is
\* absent from the page entry of this page (from query, for the list
\* operations), or, where the operation reads the first element of a list,
\* the list is empty.
Lacks(op, res, this) ==
  LET from == IF op \in PageOps
              THEN SafeGet(SafeGet(SafeGet(res, "query"), "pages"),
                           ToKey(SafeGet(this, "pageid")))
              ELSE SafeGet(res, "query")
      f == SafeGet(from, FieldOf(op))
  IN \/ f = Undef
     \/ op \in {"html", "info", "coordinates"} /\ f = Arr(<<>>)

\* C6: an extraction operation whose response lacks the field it reads
\* settles rejected (coordinates() on an empty coordinates list included),
\* never resolved.
C6_MissingFieldRejects ==
  ( /\ outcome.op \in PageOps \cup ListOps
    /\ ~IsThrown(outcome.res)
    /\ Lacks(outcome.op, outcome.res, handle) ) =>
      outcome.state = "rejected"

\* The entries of query.pages whose title is the requested one.
Matching(res, title) ==
  LET pages == SafeGet(SafeGet(res, "query"), "pages")
  IN {i \in 1..Len(pages.p) : SafeGet(pages.p[i][2], "title") = Str(title)}

\* C7: page(title) sends one query; if an entry of query.pages has the
\* requested title, whatever its key, the promise resolves with a WikiPage
\* carrying the fields of such an entry; if none has, it rejects with
\* `No article found`.
C7_PageByTitle ==
  ( /\ outcome.op = "page"
    /\ HasKey(SafeGet(outcome.res, "query"), "pages") ) =>
      LET pages == Get(Get(outcome.res, "query"), "pages")
          hits == Matching(outcome.res, outcome.title)
      IN /\ outcome.sent = 1
         /\ hits # {} =>
              /\ outcome.state = "resolved"
              /\ \E i \in hits : \A j \in 1..Len(pages.p[i][2].p) :
                   Get(outcome.value, pages.p[i][2].p[j][1]) = pages.p[i][2].p[j][2]
         /\ hits = {} =>
              /\ outcome.state = "rejected"
              /\ outcome.value = Str("No article found")
====
